---- MODULE Spec2Model ----
(***************************************************************************)
(* BreakCheck: extraction of the public API surface of two source trees,   *)
(* their structural diff into classified Changes, and the aggregation of   *)
(* the Changes into one semver level (analyzer.py).                        *)
(*                                                                         *)
(* Representation.  An identifier on which the code tests a prefix         *)
(* (function, class, method and attribute names) is a sequence of          *)
(* characters, so that startswith("_") is computed.  Other texts           *)
(* (module path, parameter names, annotation and default texts) are        *)
(* strings.  A Python dict is a sequence of [k, v] entries with unique     *)
(* keys in insertion order.  The symbol f-strings "{mod}.{name}",          *)
(* "{sym}.{member}" and "{sym}({param})" are records of their parts.       *)
(***************************************************************************)
EXTENDS Integers, Sequences, FiniteSets, TLC

VARIABLES pc, oldTree, newTree, oldApi, newApi, changes, level, prevLevel,
          cmd, exitCode, output

\* The command line, the exit code of the process (-1 while it runs) and
\* what it printed.
cli == <<cmd, exitCode, output>>

vars == <<pc, oldTree, newTree, oldApi, newApi, changes, level, prevLevel, cli>>

(***************************************************************************)
(* Python dicts.                                                           *)
(***************************************************************************)
EmptyDict == <<>>

Has(d, k) == \E i \in 1..Len(d) : d[i].k = k

Get(d, k) == d[CHOOSE i \in 1..Len(d) : d[i].k = k].v

\* d[k] = v: an existing key keeps its place, a new key goes last.
Put(d, k, v) ==
    IF Has(d, k)
    THEN [i \in 1..Len(d) |-> IF d[i].k = k THEN [k |-> k, v |-> v] ELSE d[i]]
    ELSE Append(d, [k |-> k, v |-> v])

\* x in list
InList(x, s) == \E i \in 1..Len(s) : s[i] = x

(***************************************************************************)
(* Syntax trees (ast).                                                     *)
(***************************************************************************)
NoExpr == [node |-> "None", text |-> ""]

NameExpr(t) == [node |-> "Name", text |-> t]

ConstExpr(t) == [node |-> "Constant", text |-> t]

\* ast.unparse: the source text of an expression node.
Unparse(e) == e.text

Arg(n, ann) == [arg |-> n, annotation |-> ann]

FunctionDef(name, args, defaults, returns, directive) ==
    [type |-> "FunctionDef", name |-> name, args |-> args, defaults |-> defaults,
     returns |-> returns, body |-> <<>>, directive |-> directive]

ClassDef(name, body, directive) ==
    [type |-> "ClassDef", name |-> name, args |-> <<>>, defaults |-> <<>>,
     returns |-> NoExpr, body |-> body, directive |-> directive]

\* "target: annotation" in a class body, the target a plain name.
AnnAssign(target) ==
    [type |-> "AnnAssign", name |-> target, args |-> <<>>, defaults |-> <<>>,
     returns |-> NoExpr, body |-> <<>>, directive |-> ""]

\* name.startswith("_")
StartsWithUnderscore(name) == Len(name) > 0 /\ name[1] = "_"

(***************************************************************************)
(* Symbols and Changes.                                                    *)
(***************************************************************************)
NoName == <<>>

\* f"{mod}.{name}"
Sym(mod, name) == [mod |-> mod, name |-> name, member |-> NoName, param |-> ""]

\* f"{sym}.{m}"
MemberSym(sym, m) == [sym EXCEPT !.member = m]

\* f"{sym}({n})"
ParamSym(sym, n) == [sym EXCEPT !.param = n]

LEVEL_RANK == [patch |-> 0, minor |-> 1, major |-> 2]

Levels == {"patch", "minor", "major"}

_ch(kind, sym, detail, lvl) ==
    [kind |-> kind, symbol |-> sym, detail |-> detail, level |-> lvl]

NoSym == Sym("", NoName)

\* The detail f-string: its template, the symbol it interpolates (NoSym when
\* none), the attribute or method name it interpolates (NoName when none)
\* and the other interpolated texts.
Detail(fmt, sym, name, args) == [fmt |-> fmt, sym |-> sym, name |-> name, args |-> args]

(***************************************************************************)
(* Signature extraction.                                                   *)
(***************************************************************************)
RECURSIVE ParamsOf(_)
\* analyzer.py 31-35: every argument not named self, defaults still empty.
ParamsOf(args) ==
    IF args = <<>> THEN <<>>
    ELSE LET a == Head(args)
             ann == IF a.annotation.node # "None" THEN Unparse(a.annotation) ELSE ""
         IN  IF a.arg = "self" THEN ParamsOf(Tail(args))
             ELSE <<[name |-> a.arg, ann |-> ann, default |-> ""]>> \o ParamsOf(Tail(args))

RECURSIVE ApplyDefaults(_, _, _)
\* analyzer.py 36-39: default i (0-based) goes to params[len(params)-len(defaults)+i].
ApplyDefaults(params, defaults, i) ==
    IF i >= Len(defaults) THEN params
    ELSE LET idx == Len(params) - Len(defaults) + i
             next == IF 0 <= idx /\ idx < Len(params)
                     THEN [params EXCEPT ![idx + 1].default = Unparse(defaults[i + 1])]
                     ELSE params
         IN  ApplyDefaults(next, defaults, i + 1)

_parse_fn(node) ==
    [params |-> ApplyDefaults(ParamsOf(node.args), node.defaults, 0),
     ret |-> IF node.returns.node # "None" THEN Unparse(node.returns) ELSE ""]

RECURSIVE ParseClsBody(_, _, _)
ParseClsBody(body, methods, attrs) ==
    IF body = <<>> THEN [methods |-> methods, attrs |-> attrs]
    ELSE LET item == Head(body)
         IN  IF item.type = "FunctionDef" /\ ~StartsWithUnderscore(item.name)
             THEN ParseClsBody(Tail(body), Put(methods, item.name, _parse_fn(item)), attrs)
             ELSE IF item.type = "AnnAssign"
             THEN ParseClsBody(Tail(body), methods, Append(attrs, item.name))
             ELSE ParseClsBody(Tail(body), methods, attrs)

_parse_cls(node) == ParseClsBody(node.body, EmptyDict, <<>>)

(***************************************************************************)
(* Surface discovery (surface.py) and extraction.                          *)
(***************************************************************************)
NoAll == [defined |-> FALSE, names |-> {}]

ExportList(names) == [defined |-> TRUE, names |-> names]

BodyNames(m) == {m.body[i].name : i \in 1..Len(m.body)}

Directives(m, name) ==
    {m.body[i].directive : i \in {j \in 1..Len(m.body) : m.body[j].name = name}}

\* The public names of one parsed module: ignore directive, then public
\* directive, then the export list when one is defined, then the naming rule.
discover_public_api(m) ==
    {name \in BodyNames(m) :
        IF "ignore" \in Directives(m, name) THEN FALSE
        ELSE IF "public" \in Directives(m, name) THEN TRUE
        ELSE IF m.exports.defined THEN name \in m.exports.names
        ELSE ~StartsWithUnderscore(name)}

EmptySurface == [functions |-> EmptyDict, classes |-> EmptyDict]

RECURSIVE ExtractNodes(_, _, _, _)
\* analyzer.py 18-25: the loop over the module's top-level nodes.
ExtractNodes(mod, body, public_names, surface) ==
    IF body = <<>> THEN surface
    ELSE LET node == Head(body)
             next ==
               IF node.type = "FunctionDef" /\ node.name \in public_names
               THEN [surface EXCEPT !.functions = Put(@, Sym(mod, node.name), _parse_fn(node))]
               ELSE IF node.type = "ClassDef" /\ node.name \in public_names
               THEN [surface EXCEPT !.classes = Put(@, Sym(mod, node.name), _parse_cls(node))]
               ELSE IF node.type = "ClassDef" /\ ~StartsWithUnderscore(node.name)
               THEN [surface EXCEPT !.classes = Put(@, Sym(mod, node.name), _parse_cls(node))]
               ELSE surface
         IN  ExtractNodes(mod, Tail(body), public_names, next)

RECURSIVE ExtractModules(_, _)
\* analyzer.py 13-17: the files in sorted order; ast.parse of a malformed file
\* raises, and no handler of extract_api catches it.
ExtractModules(tree, surface) ==
    IF tree = <<>> THEN [raised |-> FALSE, surface |-> surface]
    ELSE LET m == Head(tree)
         IN  IF ~m.parses THEN [raised |-> TRUE, surface |-> EmptySurface]
             ELSE ExtractModules(Tail(tree),
                     ExtractNodes(m.mod, m.body, discover_public_api(m), surface))

extract_api(source_dir) == ExtractModules(source_dir, EmptySurface)

(***************************************************************************)
(* Diff engine.                                                            *)
(***************************************************************************)
RECURSIVE FromParams(_, _)
\* {p["name"]: p for p in params}
FromParams(params, d) ==
    IF params = <<>> THEN d
    ELSE FromParams(Tail(params), Put(d, Head(params).name, Head(params)))

\* Mutant: an empty (unknown) text is compared like any other.
TypeMismatch_NoEmptyCheck(a, b) == a # b

\* analyzer.py 89 and 100: both texts non-empty and different.
TypeMismatch(a, b) == a # "" /\ b # "" /\ a # b

\* Mutant: the old default is not required to exist.
DefaultRemoved_AnyOld(p, q) == q.default = ""

\* analyzer.py 91
DefaultRemoved(p, q) == p.default # "" /\ q.default = ""

\* Mutant: the comparison of the two default texts is dropped.
DefaultChanged_NoCompare(p, q) == p.default # "" /\ q.default # ""

\* analyzer.py 93
DefaultChanged(p, q) == p.default # "" /\ q.default # "" /\ p.default # q.default

\* Mutant: an added parameter is major whether or not it has a default.
ParamAddedLevel_AlwaysMajor(q) == "major"

\* analyzer.py 97
ParamAddedLevel(q) == IF q.default # "" THEN "minor" ELSE "major"

\* analyzer.py 85-94: the Changes of one parameter of the old signature.
OldParamChanges(sym, n, p, np_) ==
    IF ~Has(np_, n)
    THEN <<_ch("param_removed", ParamSym(sym, n),
               Detail("Param '{n}' removed from {sym}", sym, NoName, <<n>>), "major")>>
    ELSE LET q == Get(np_, n)
         IN  (IF TypeMismatch(p.ann, q.ann)
              THEN <<_ch("type_changed", ParamSym(sym, n),
                         Detail("Type of '{n}': {old} -> {new}", NoSym, NoName, <<n, p.ann, q.ann>>),
                         "major")>>
              ELSE <<>>)
             \o
             (IF DefaultRemoved(p, q)
              THEN <<_ch("default_removed", ParamSym(sym, n),
                         Detail("Default of '{n}' removed (now required)", NoSym, NoName, <<n>>),
                         "major")>>
              ELSE IF DefaultChanged(p, q)
              THEN <<_ch("default_changed", ParamSym(sym, n),
                         Detail("Default of '{n}' changed", NoSym, NoName, <<n>>), "patch")>>
              ELSE <<>>)

\* analyzer.py 96-99: the Change of one parameter of the new signature.
NewParamChanges(sym, n, q, op) ==
    IF ~Has(op, n)
    THEN LET lv == ParamAddedLevel(q)
             tag == IF lv = "minor" THEN "optional" ELSE "REQUIRED"
         IN  <<_ch("param_added", ParamSym(sym, n),
                   Detail("Param '{n}' added ({tag})", NoSym, NoName, <<n, tag>>), lv)>>
    ELSE <<>>

RECURSIVE OldParamsLoop(_, _, _, _)
OldParamsLoop(sym, op, i, np_) ==
    IF i > Len(op) THEN <<>>
    ELSE OldParamChanges(sym, op[i].k, op[i].v, np_) \o OldParamsLoop(sym, op, i + 1, np_)

RECURSIVE NewParamsLoop(_, _, _, _)
NewParamsLoop(sym, np_, i, op) ==
    IF i > Len(np_) THEN <<>>
    ELSE NewParamChanges(sym, np_[i].k, np_[i].v, op) \o NewParamsLoop(sym, np_, i + 1, op)

\* analyzer.py 100-101
ReturnChanges(sym, old, new) ==
    IF TypeMismatch(old.ret, new.ret)
    THEN <<_ch("return_type_changed", sym,
               Detail("Return: {old} -> {new}", NoSym, NoName, <<old.ret, new.ret>>), "major")>>
    ELSE <<>>

\* Mutant: the parameters are matched by position, the i-th new parameter
\* standing for the i-th old one whatever its name.
_diff_fn_Positional(sym, old, new) ==
    LET op == FromParams(old.params, EmptyDict)
        np_ == [i \in 1..Len(new.params) |->
                   [k |-> IF i <= Len(old.params) THEN old.params[i].name
                          ELSE new.params[i].name,
                    v |-> new.params[i]]]
    IN  OldParamsLoop(sym, op, 1, np_) \o NewParamsLoop(sym, np_, 1, op)
        \o ReturnChanges(sym, old, new)

\* analyzer.py 80-101
_diff_fn(sym, old, new) ==
    LET op == FromParams(old.params, EmptyDict)
        np_ == FromParams(new.params, EmptyDict)
    IN  OldParamsLoop(sym, op, 1, np_) \o NewParamsLoop(sym, np_, 1, op)
        \o ReturnChanges(sym, old, new)

RECURSIVE AttrsLoop(_, _, _)
\* analyzer.py 107-109
AttrsLoop(sym, attrs, newAttrs) ==
    IF attrs = <<>> THEN <<>>
    ELSE LET a == Head(attrs)
         IN  (IF ~InList(a, newAttrs)
              THEN <<_ch("attr_removed", MemberSym(sym, a),
                         Detail("Attribute '{a}' removed from {sym}", sym, a, <<>>), "major")>>
              ELSE <<>>)
             \o AttrsLoop(sym, Tail(attrs), newAttrs)

RECURSIVE OldMethodsLoop_Unqualified(_, _, _, _)
\* Mutant: the signature Changes of a method carry the class symbol, not
\* the qualified <class>.<method>.
OldMethodsLoop_Unqualified(sym, methods, i, newMethods) ==
    IF i > Len(methods) THEN <<>>
    ELSE LET m == methods[i].k
         IN  (IF ~Has(newMethods, m)
              THEN <<_ch("method_removed", MemberSym(sym, m),
                         Detail("Method '{m}' removed from {sym}", sym, m, <<>>), "major")>>
              ELSE _diff_fn(sym, methods[i].v, Get(newMethods, m)))
             \o OldMethodsLoop_Unqualified(sym, methods, i + 1, newMethods)

RECURSIVE OldMethodsLoop(_, _, _, _)
\* analyzer.py 110-114
OldMethodsLoop(sym, methods, i, newMethods) ==
    IF i > Len(methods) THEN <<>>
    ELSE LET m == methods[i].k
         IN  (IF ~Has(newMethods, m)
              THEN <<_ch("method_removed", MemberSym(sym, m),
                         Detail("Method '{m}' removed from {sym}", sym, m, <<>>), "major")>>
              ELSE _diff_fn(MemberSym(sym, m), methods[i].v, Get(newMethods, m)))
             \o OldMethodsLoop(sym, methods, i + 1, newMethods)

RECURSIVE NewMethodsLoop(_, _, _, _)
\* analyzer.py 115-117
NewMethodsLoop(sym, newMethods, i, methods) ==
    IF i > Len(newMethods) THEN <<>>
    ELSE LET m == newMethods[i].k
         IN  (IF ~Has(methods, m)
              THEN <<_ch("method_added", MemberSym(sym, m),
                         Detail("Method '{m}' added to {sym}", sym, m, <<>>), "minor")>>
              ELSE <<>>)
             \o NewMethodsLoop(sym, newMethods, i + 1, methods)

\* Mutant: attributes are compared in both directions.
_diff_cls_AttrsBothWays(sym, old, new) ==
    AttrsLoop(sym, old.attrs, new.attrs)
    \o AttrsLoop(sym, new.attrs, old.attrs)
    \o OldMethodsLoop(sym, old.methods, 1, new.methods)
    \o NewMethodsLoop(sym, new.methods, 1, old.methods)

_diff_cls(sym, old, new) ==
    AttrsLoop(sym, old.attrs, new.attrs)
    \o OldMethodsLoop(sym, old.methods, 1, new.methods)
    \o NewMethodsLoop(sym, new.methods, 1, old.methods)

RECURSIVE OldFunctionsLoop(_, _, _)
\* analyzer.py 61-65
OldFunctionsLoop(fns, i, newFns) ==
    IF i > Len(fns) THEN <<>>
    ELSE LET k == fns[i].k
         IN  (IF ~Has(newFns, k)
              THEN <<_ch("function_removed", k, Detail("Removed: {k}", k, NoName, <<>>), "major")>>
              ELSE _diff_fn(k, fns[i].v, Get(newFns, k)))
             \o OldFunctionsLoop(fns, i + 1, newFns)

RECURSIVE OldClassesLoop(_, _, _)
\* analyzer.py 69-73
OldClassesLoop(cls, i, newCls) ==
    IF i > Len(cls) THEN <<>>
    ELSE LET k == cls[i].k
         IN  (IF ~Has(newCls, k)
              THEN <<_ch("class_removed", k, Detail("Removed: {k}", k, NoName, <<>>), "major")>>
              ELSE _diff_cls(k, cls[i].v, Get(newCls, k)))
             \o OldClassesLoop(cls, i + 1, newCls)

RECURSIVE AddedLoop(_, _, _, _)
\* analyzer.py 66-68 (kind function_added) and 74-76 (kind class_added)
AddedLoop(kind, newD, i, oldD) ==
    IF i > Len(newD) THEN <<>>
    ELSE LET k == newD[i].k
         IN  (IF ~Has(oldD, k)
              THEN <<_ch(kind, k, Detail("Added: {k}", k, NoName, <<>>), "minor")>>
              ELSE <<>>)
             \o AddedLoop(kind, newD, i + 1, oldD)

\* Mutant: additions of functions are not looked for.
diff_api_NoFunctionAdded(old, new) ==
    OldFunctionsLoop(old.functions, 1, new.functions)
    \o OldClassesLoop(old.classes, 1, new.classes)
    \o AddedLoop("class_added", new.classes, 1, old.classes)

diff_api(old, new) ==
    OldFunctionsLoop(old.functions, 1, new.functions)
    \o AddedLoop("function_added", new.functions, 1, old.functions)
    \o OldClassesLoop(old.classes, 1, new.classes)
    \o AddedLoop("class_added", new.classes, 1, old.classes)

(***************************************************************************)
(* Severity aggregation.                                                   *)
(***************************************************************************)
RECURSIVE MaxByRank(_, _)
\* Python's max(..., key=...): the first element of greatest key.
MaxByRank(best, rest) ==
    IF rest = <<>> THEN best
    ELSE MaxByRank(IF LEVEL_RANK[Head(rest)] > LEVEL_RANK[best] THEN Head(rest) ELSE best,
                   Tail(rest))

\* Mutant: the level of the first Change instead of the greatest.
max_level_First(chs) == IF chs = <<>> THEN "patch" ELSE chs[1].level

\* Mutant: the level of the last Change instead of the greatest.
max_level_Last(chs) == IF chs = <<>> THEN "patch" ELSE chs[Len(chs)].level

max_level(chs) ==
    IF chs = <<>> THEN "patch"
    ELSE MaxByRank(chs[1].level, [i \in 1..(Len(chs) - 1) |-> chs[i + 1].level])

(***************************************************************************)
(* Bounded inputs.                                                         *)
(***************************************************************************)
Mod == "api"

\* --- source trees: one module api.py with at most one declaration ---
TopNames == {<<"t">>, <<"_", "t">>}

DirectiveTexts == {"", "ignore", "public"}

FnShapes ==
    {[args |-> <<Arg("x", NameExpr("int"))>>, defaults |-> <<>>,
      returns |-> NameExpr("str")],
     [args |-> <<Arg("x", NameExpr("str")), Arg("y", NameExpr("int"))>>,
      defaults |-> <<ConstExpr("1")>>, returns |-> NameExpr("str")]}

ClassBodies ==
    {<<AnnAssign(<<"n">>), AnnAssign(<<"e">>),
       FunctionDef(<<"m">>, <<Arg("self", NoExpr), Arg("x", NameExpr("int"))>>, <<>>,
                   NoExpr, "")>>,
     <<AnnAssign(<<"n">>),
       FunctionDef(<<"m">>, <<Arg("self", NoExpr), Arg("x", NameExpr("str"))>>, <<>>,
                   NoExpr, ""),
       FunctionDef(<<"_", "h">>, <<Arg("self", NoExpr)>>, <<>>, NoExpr, "")>>}

TopNodes ==
    {FunctionDef(n, sh.args, sh.defaults, sh.returns, d) :
        n \in TopNames, sh \in FnShapes, d \in DirectiveTexts}
    \cup {ClassDef(n, b, d) : n \in TopNames, b \in ClassBodies, d \in DirectiveTexts}

ModuleBodies == {<<>>} \cup {<<n>> : n \in TopNodes}

ExportLists == {NoAll} \cup {ExportList(ns) : ns \in SUBSET TopNames}

SourceTrees ==
    {<<[mod |-> Mod, parses |-> TRUE, exports |-> e, body |-> b]>> :
        e \in ExportLists, b \in ModuleBodies}

\* --- source trees of up to three modules a.py, b.py, c.py (the sorted scan
\* order), each one malformed, empty, or declaring the function t ---
ModuleNames == <<"a", "b", "c">>

MalformedModule(mod) == [mod |-> mod, parses |-> FALSE, exports |-> NoAll, body |-> <<>>]

ParsedModule(mod, body) == [mod |-> mod, parses |-> TRUE, exports |-> NoAll, body |-> body]

ModuleChoices(mod) ==
    {MalformedModule(mod), ParsedModule(mod, <<>>),
     ParsedModule(mod, <<FunctionDef(<<"t">>, <<Arg("x", NameExpr("int"))>>, <<>>,
                                     NameExpr("str"), "")>>)}

RECURSIVE TreesFrom(_)
TreesFrom(i) ==
    IF i > Len(ModuleNames) THEN {<<>>}
    ELSE LET rest == TreesFrom(i + 1)
         IN  rest \cup {<<m>> \o t : m \in ModuleChoices(ModuleNames[i]), t \in rest}

ParseTrees == TreesFrom(1)

\* --- declarations of one function t: every list of distinct argument names,
\* each argument annotated or not, the trailing k arguments with a default
\* whose text is the position of its argument ---
ArgNames == {"self", "x", "y"}

ArgNameLists ==
    {ns \in UNION {[1..n -> ArgNames] : n \in 0..Cardinality(ArgNames)} :
        \A i, j \in DOMAIN ns : i # j => ns[i] # ns[j]}

AnnChoices == {NoExpr, NameExpr("int")}

PositionTexts == <<"1", "2", "3">>

FnDecls ==
    UNION {UNION {{FunctionDef(<<"t">>,
                               [j \in 1..Len(ns) |-> Arg(ns[j], anns[j])],
                               [i \in 1..k |-> ConstExpr(PositionTexts[Len(ns) - k + i])],
                               NameExpr("str"), "") :
                      k \in 0..Len(ns)} :
                  anns \in [1..Len(ns) -> AnnChoices]} :
           ns \in ArgNameLists}

FnTrees == {<<[mod |-> Mod, parses |-> TRUE, exports |-> NoAll, body |-> <<n>>]>> : n \in FnDecls}

\* --- signatures ---
ParamNames == {"x", "y"}

Texts == {"", "int", "str"}

DefaultTexts == {"", "1", "2"}

Params == [name : ParamNames, ann : Texts, default : DefaultTexts]

\* Parameter lists Python accepts: distinct names, and no parameter without
\* a default after one with a default.
ParamLists ==
    {<<>>} \cup {<<p>> : p \in Params}
    \cup {pq \in {<<p, q>> : p \in Params, q \in Params} :
             pq[1].name # pq[2].name /\ (pq[1].default # "" => pq[2].default # "")}

Signatures == [params : ParamLists, ret : Texts]

SmallSignatures ==
    {[params |-> <<[name |-> "x", ann |-> "int", default |-> ""]>>, ret |-> "int"],
     [params |-> <<[name |-> "x", ann |-> "str", default |-> ""],
                   [name |-> "y", ann |-> "", default |-> "1"]>>, ret |-> "int"]}

\* Dicts over two keys with values of vals, in both insertion orders.
Dicts2(k1, k2, vals) ==
    {EmptyDict}
    \cup {<<[k |-> k, v |-> v]>> : k \in {k1, k2}, v \in vals}
    \cup {<<[k |-> k1, v |-> v], [k |-> k2, v |-> w]>> : v \in vals, w \in vals}
    \cup {<<[k |-> k2, v |-> v], [k |-> k1, v |-> w]>> : v \in vals, w \in vals}

\* --- class signatures ---
AttrNames == {<<"a">>, <<"b">>}

AttrLists == {<<>>} \cup {<<a>> : a \in AttrNames} \cup {<<a, b>> : a \in AttrNames, b \in AttrNames}

ClassSignatures ==
    [methods : Dicts2(<<"m">>, <<"n">>, SmallSignatures), attrs : AttrLists]

SmallClassSignatures ==
    {[methods |-> <<[k |-> <<"m">>, v |-> s]>>, attrs |-> <<<<"a">>>>] : s \in SmallSignatures}

\* --- surfaces ---
FnSurfaces ==
    {[functions |-> <<[k |-> Sym(Mod, <<"f">>), v |-> s]>>, classes |-> EmptyDict] :
        s \in Signatures}

ClassSurfaces ==
    {[functions |-> EmptyDict, classes |-> <<[k |-> Sym(Mod, <<"K">>), v |-> c]>>] :
        c \in ClassSignatures}

TopSurfaces ==
    [functions : Dicts2(Sym(Mod, <<"f">>), Sym(Mod, <<"g">>), SmallSignatures),
     classes : Dicts2(Sym(Mod, <<"K">>), Sym(Mod, <<"L">>), SmallClassSignatures)]

\* A class K with one method m of any signature.
MethodSurfaces ==
    {[functions |-> EmptyDict,
      classes |-> <<[k |-> Sym(Mod, <<"K">>),
                     v |-> [methods |-> <<[k |-> <<"m">>, v |-> s]>>, attrs |-> <<>>]]>>] :
        s \in Signatures}

\* --- Change lists ---
MaxChanges == 4

SampleChanges ==
    {_ch("default_changed", ParamSym(Sym(Mod, <<"f">>), "x"),
         Detail("Default of '{n}' changed", NoSym, NoName, <<"x">>), "patch"),
     _ch("function_added", Sym(Mod, <<"g">>),
         Detail("Added: {k}", Sym(Mod, <<"g">>), NoName, <<>>), "minor"),
     _ch("function_removed", Sym(Mod, <<"f">>),
         Detail("Removed: {k}", Sym(Mod, <<"f">>), NoName, <<>>), "major")}

MajorChange ==
    _ch("class_removed", Sym(Mod, <<"K">>),
        Detail("Removed: {k}", Sym(Mod, <<"K">>), NoName, <<>>), "major")

ChangeLists == UNION {[1..n -> SampleChanges] : n \in 0..MaxChanges}

(***************************************************************************)
(* The command line (breakcheck.py).                                       *)
(***************************************************************************)
NoCmd == [name |-> "", declared |-> "", fmt |-> ""]

GateCmd(declared) == [name |-> "gate", declared |-> declared, fmt |-> ""]

CompareCmd(fmt) == [name |-> "compare", declared |-> "", fmt |-> fmt]

\* What a command printed: a console text with the lines it lists (kind
\* "text"), a Rich table (kind "table") or a JSON document (kind "json": top
\* is "object" or "array", keys the keys of a top-level object, items the list
\* it carries, recommended the value of that key).
Printed(kind, text, top, keys, items, recommended) ==
    [kind |-> kind, text |-> text, top |-> top, keys |-> keys, items |-> items,
     recommended |-> recommended]

NoOutput == Printed("none", "", "", {}, <<>>, "")

NoCli == cmd = NoCmd /\ exitCode = -1 /\ output = NoOutput

\* breakcheck.py 53
ValidLevel(declared) == declared \in DOMAIN LEVEL_RANK

\* Mutant: a diff that needs exactly the declared level is blocked too.
GateBlocks_Inclusive(actual, declared) == LEVEL_RANK[actual] >= LEVEL_RANK[declared]

\* breakcheck.py 58
GateBlocks(actual, declared) == LEVEL_RANK[actual] > LEVEL_RANK[declared]

\* sorted(changes, key=lambda x: -LEVEL_RANK[x["level"]]): a stable sort,
\* the major Changes first, then the minor, then the patch, each in order.
SortedByLevel(chs) ==
    SelectSeq(chs, LAMBDA c : c.level = "major")
    \o SelectSeq(chs, LAMBDA c : c.level = "minor")
    \o SelectSeq(chs, LAMBDA c : c.level = "patch")

\* --- command lines ---
DeclaredTexts == {"patch", "minor", "major", "huge"}

FormatTexts == {"table", "json", "sarif"}

Commands == {GateCmd(d) : d \in DeclaredTexts} \cup {CompareCmd(f) : f \in FormatTexts}

(***************************************************************************)
(* The pipeline: extract both trees, diff the surfaces, aggregate.         *)
(***************************************************************************)
\* compare / gate: two source directories given on the command line.
Init ==
    /\ pc = "start"
    /\ oldTree \in SourceTrees
    /\ newTree \in SourceTrees
    /\ oldApi = EmptySurface
    /\ newApi = EmptySurface
    /\ changes = <<>>
    /\ level = "none"
    /\ prevLevel = "none"
    /\ NoCli

\* A caller of diff_api holding two surfaces.
InitDiff ==
    /\ pc = "extracted"
    /\ oldTree = <<>>
    /\ newTree = <<>>
    /\ \/ oldApi \in FnSurfaces /\ newApi \in FnSurfaces
       \/ oldApi \in ClassSurfaces /\ newApi \in ClassSurfaces
       \/ oldApi \in TopSurfaces /\ newApi \in TopSurfaces
    /\ changes = <<>>
    /\ level = "none"
    /\ prevLevel = "none"
    /\ NoCli

\* A caller of diff_api holding two versions of a class with one method.
InitMethod ==
    /\ pc = "extracted"
    /\ oldTree = <<>>
    /\ newTree = <<>>
    /\ oldApi \in MethodSurfaces
    /\ newApi \in MethodSurfaces
    /\ changes = <<>>
    /\ level = "none"
    /\ prevLevel = "none"
    /\ NoCli

\* A caller of max_level holding a Change list.
InitLevel ==
    /\ pc = "diffed"
    /\ oldTree = <<>>
    /\ newTree = <<>>
    /\ oldApi = EmptySurface
    /\ newApi = EmptySurface
    /\ changes \in ChangeLists
    /\ level = "none"
    /\ prevLevel = "none"
    /\ NoCli

\* extract_api(old), extract_api(new)
Extract ==
    /\ pc = "start"
    /\ LET o == extract_api(oldTree)
           n == extract_api(newTree)
       IN  IF o.raised \/ n.raised
           THEN pc' = "error" /\ UNCHANGED <<oldApi, newApi>>
           ELSE pc' = "extracted" /\ oldApi' = o.surface /\ newApi' = n.surface
    /\ UNCHANGED <<oldTree, newTree, changes, level, prevLevel, cli>>

\* changes = diff_api(old, new)
Diff ==
    /\ pc = "extracted"
    /\ changes' = diff_api(oldApi, newApi)
    /\ pc' = "diffed"
    /\ UNCHANGED <<oldTree, newTree, oldApi, newApi, level, prevLevel, cli>>

\* max_level(changes), called by the library's caller or by gate; compare
\* calls it while it reports (CompareReport).
Aggregate ==
    /\ pc = "diffed"
    /\ cmd.name # "compare"
    /\ level' = max_level(changes)
    /\ pc' = "done"
    /\ UNCHANGED <<oldTree, newTree, oldApi, newApi, changes, prevLevel, cli>>

\* The caller adds one major-level Change to an aggregated list and
\* aggregates again.
AppendMajor ==
    /\ pc = "done"
    /\ Len(changes) <= MaxChanges
    /\ changes' = Append(changes, MajorChange)
    /\ prevLevel' = level
    /\ pc' = "diffed"
    /\ UNCHANGED <<oldTree, newTree, oldApi, newApi, level, cli>>

\* A run of the gate or compare command on two source directories.
InitCli ==
    /\ cmd \in Commands
    /\ pc = (IF cmd.name = "gate" THEN "invoked" ELSE "start")
    /\ oldTree \in SourceTrees
    /\ newTree \in SourceTrees
    /\ oldApi = EmptySurface
    /\ newApi = EmptySurface
    /\ changes = <<>>
    /\ level = "none"
    /\ prevLevel = "none"
    /\ exitCode = -1
    /\ output = NoOutput

\* breakcheck.py 53-55: gate refuses a declared level it does not know.
GateValidate ==
    /\ pc = "invoked"
    /\ cmd.name = "gate"
    /\ IF ~ValidLevel(cmd.declared)
       THEN /\ output' = Printed("text", "Invalid level", "", {}, <<cmd.declared>>, "")
            /\ exitCode' = 2
            /\ pc' = "exit"
       ELSE /\ pc' = "start"
            /\ UNCHANGED <<exitCode, output>>
    /\ UNCHANGED <<oldTree, newTree, oldApi, newApi, changes, level, prevLevel, cmd>>

\* breakcheck.py 58-67: gate blocks the release or lets it pass.
GateDecide ==
    /\ pc = "done"
    /\ cmd.name = "gate"
    /\ IF GateBlocks(level, cmd.declared)
       THEN /\ output' = Printed("text", "RELEASE BLOCKED", "", {},
                            [i \in 1..Len(SelectSeq(changes,
                                      LAMBDA c : GateBlocks(c.level, cmd.declared))) |->
                                SelectSeq(changes,
                                      LAMBDA c : GateBlocks(c.level, cmd.declared))[i].detail],
                            level)
            /\ exitCode' = 1
       ELSE /\ output' = Printed("text", "Gate passed", "", {}, <<>>, level)
            /\ exitCode' = 0
    /\ pc' = "exit"
    /\ UNCHANGED <<oldTree, newTree, oldApi, newApi, changes, level, prevLevel, cmd>>

\* breakcheck.py 27-43: compare prints the diff and returns.
CompareReport ==
    /\ pc = "diffed"
    /\ cmd.name = "compare"
    /\ IF cmd.fmt = "json"
       THEN /\ level' = max_level(changes)
            /\ output' = Printed("json", "", "object", {"changes", "recommended"},
                                 changes, max_level(changes))
       ELSE IF changes = <<>>
       THEN /\ output' = Printed("text", "No public API changes detected.", "", {}, <<>>, "")
            /\ UNCHANGED level
       ELSE /\ level' = max_level(changes)
            /\ output' = Printed("table", "BreakCheck API Diff Report", "", {},
                                 SortedByLevel(changes), max_level(changes))
    /\ exitCode' = 0
    /\ pc' = "exit"
    /\ UNCHANGED <<oldTree, newTree, oldApi, newApi, changes, prevLevel, cmd>>

\* Two source trees whose modules may be malformed.
InitParse ==
    /\ pc = "start"
    /\ oldTree \in ParseTrees
    /\ newTree \in ParseTrees
    /\ oldApi = EmptySurface
    /\ newApi = EmptySurface
    /\ changes = <<>>
    /\ level = "none"
    /\ prevLevel = "none"
    /\ NoCli

\* Two source trees, each one module declaring one public function.
InitFn ==
    /\ pc = "start"
    /\ oldTree \in FnTrees
    /\ newTree \in FnTrees
    /\ oldApi = EmptySurface
    /\ newApi = EmptySurface
    /\ changes = <<>>
    /\ level = "none"
    /\ prevLevel = "none"
    /\ NoCli

Next == Extract \/ Diff \/ Aggregate

SpecFn == InitFn /\ [][Next]_vars

SpecParse == InitParse /\ [][Next]_vars

NextCli == GateValidate \/ Extract \/ Diff \/ Aggregate \/ GateDecide \/ CompareReport

SpecCli == InitCli /\ [][NextCli]_vars

Spec == Init /\ [][Next]_vars

NextDiff == Diff \/ Aggregate

SpecDiff == InitDiff /\ [][NextDiff]_vars

SpecMethod == InitMethod /\ [][NextDiff]_vars

NextLevel == Aggregate \/ AppendMajor

SpecLevel == InitLevel /\ [][NextLevel]_vars

(***************************************************************************)
(* Properties.                                                             *)
(***************************************************************************)
Diffed == pc \in {"diffed", "done"}

DictKeys(d) == {d[i].k : i \in 1..Len(d)}

\* The number of Changes of one kind on one symbol.
Count(kind, sym) ==
    Cardinality({i \in 1..Len(changes) : changes[i].kind = kind /\ changes[i].symbol = sym})

\* Every Change of one kind on one symbol has this level.
AllAtLevel(kind, sym, lvl) ==
    \A i \in 1..Len(changes) :
        (changes[i].kind = kind /\ changes[i].symbol = sym) => changes[i].level = lvl

\* patch < minor < major, stated without LEVEL_RANK.
LevelLE(a, b) == a = b \/ a = "patch" \/ b = "major"

\* C1 as stated: the aggregated level of a diff is "patch" if and only if
\* the diff is empty.
C1_PatchIffEmpty == pc = "done" => (level = "patch" <=> changes = <<>>)

\* C1 amended: the aggregated level of a diff is "patch" if and only if every
\* Change of the diff is a default_changed Change (the only kind of level
\* patch); an empty diff aggregates to "patch".
C1_PatchIffOnlyDefaultChanged ==
    pc = "done" =>
        /\ changes = <<>> => level = "patch"
        /\ level = "patch" <=> \A i \in 1..Len(changes) : changes[i].kind = "default_changed"
        /\ \A i \in 1..Len(changes) :
              changes[i].level = "patch" <=> changes[i].kind = "default_changed"

C1_Witness ==
    pc = "done" /\ changes # <<>> /\ level = "patch" /\ oldApi # newApi

\* C4: diffing a surface against itself reports no Change.
C4_SelfDiffEmpty == (Diffed /\ oldApi = newApi) => changes = <<>>

C4_Witness ==
    /\ pc = "diffed"
    /\ oldApi = newApi
    /\ changes = <<>>
    /\ \E i \in 1..Len(oldApi.classes) :
          LET c == oldApi.classes[i].v
          IN  /\ c.attrs # <<>>
              /\ Len(c.methods) = 2
              /\ \E j \in 1..Len(c.methods) :
                    \E n \in 1..Len(c.methods[j].v.params) :
                        LET q == c.methods[j].v.params[n]
                        IN  q.default # "" \/ q.ann # ""

\* C5: max_level of the empty list is "patch"; of a non-empty list it is a
\* level that occurs in the list and that no level of the list outranks; after
\* a major-level Change is appended the result is "major" and not lower than
\* before.
C5_MaxLevel ==
    pc = "done" =>
        /\ changes = <<>> => level = "patch"
        /\ changes # <<>> =>
              /\ \E i \in 1..Len(changes) : changes[i].level = level
              /\ \A i \in 1..Len(changes) : LevelLE(changes[i].level, level)
        /\ prevLevel # "none" => level = "major" /\ LevelLE(prevLevel, level)

C5_Witness ==
    /\ pc = "done"
    /\ prevLevel = "minor"
    /\ level = "major"
    /\ \E i \in 1..Len(changes) : changes[i].level = "patch"

\* C6: every function (class) of old absent from new yields exactly one
\* function_removed (class_removed) Change of level major, every function
\* (class) of new absent from old exactly one function_added (class_added)
\* Change of level minor, and a symbol present on both sides or on neither
\* yields none of them.
ExistenceReported(kind, sym, cond, lvl) ==
    /\ Count(kind, sym) = (IF cond THEN 1 ELSE 0)
    /\ AllAtLevel(kind, sym, lvl)

C6_ExistenceBothWays ==
    Diffed =>
        /\ \A k \in DictKeys(oldApi.functions) \cup DictKeys(newApi.functions) :
              /\ ExistenceReported("function_removed", k,
                    Has(oldApi.functions, k) /\ ~Has(newApi.functions, k), "major")
              /\ ExistenceReported("function_added", k,
                    Has(newApi.functions, k) /\ ~Has(oldApi.functions, k), "minor")
        /\ \A k \in DictKeys(oldApi.classes) \cup DictKeys(newApi.classes) :
              /\ ExistenceReported("class_removed", k,
                    Has(oldApi.classes, k) /\ ~Has(newApi.classes, k), "major")
              /\ ExistenceReported("class_added", k,
                    Has(newApi.classes, k) /\ ~Has(oldApi.classes, k), "minor")
        /\ \A i \in 1..Len(changes) :
              /\ changes[i].kind = "function_removed" => Has(oldApi.functions, changes[i].symbol)
              /\ changes[i].kind = "function_added" => Has(newApi.functions, changes[i].symbol)
              /\ changes[i].kind = "class_removed" => Has(oldApi.classes, changes[i].symbol)
              /\ changes[i].kind = "class_added" => Has(newApi.classes, changes[i].symbol)

C6_Witness ==
    /\ pc = "diffed"
    /\ \E i, j \in 1..Len(changes) :
          /\ changes[i].kind = "function_removed"
          /\ changes[j].kind = "function_added"
    /\ \E k \in DictKeys(oldApi.classes) : Has(newApi.classes, k)
    /\ \E k \in DictKeys(oldApi.classes) : ~Has(newApi.classes, k)

\* The parameter names of a signature, and the parameter of a given name.
NamesOf(sig) == {sig.params[i].name : i \in 1..Len(sig.params)}

ParamNamed(sig, n) == sig.params[CHOOSE i \in 1..Len(sig.params) : sig.params[i].name = n]

\* The functions present in both surfaces.
SharedFunctions == DictKeys(oldApi.functions) \cap DictKeys(newApi.functions)

\* s without its j-th element.
RemoveAt(s, j) == [i \in 1..(Len(s) - 1) |-> IF i < j THEN s[i] ELSE s[i + 1]]

\* new is old with one parameter that has a default inserted at place j, and
\* nothing else differs.
AddsDefaulted(old, new, j) ==
    /\ j \in 1..Len(new.params)
    /\ new.params[j].default # ""
    /\ new.params[j].name \notin NamesOf(old)
    /\ RemoveAt(new.params, j) = old.params
    /\ new.ret = old.ret

\* C7: for a function present in both surfaces, every parameter name of the
\* new signature absent from the old yields exactly one param_added Change,
\* major without a default and minor with one, and no other name yields one;
\* when one added parameter with a default is the only difference between the
\* surfaces, the diff is exactly that Change and aggregates to minor.
C7_ParamAdded ==
    Diffed =>
        /\ \A k \in SharedFunctions :
              LET o == Get(oldApi.functions, k)
                  w == Get(newApi.functions, k)
              IN  \A n \in NamesOf(o) \cup NamesOf(w) :
                      LET added == n \in NamesOf(w) /\ n \notin NamesOf(o)
                      IN  /\ Count("param_added", ParamSym(k, n)) = (IF added THEN 1 ELSE 0)
                          /\ added =>
                                AllAtLevel("param_added", ParamSym(k, n),
                                    IF ParamNamed(w, n).default = "" THEN "major" ELSE "minor")
        /\ \A k \in SharedFunctions :
              LET o == Get(oldApi.functions, k)
                  w == Get(newApi.functions, k)
              IN  \A j \in 1..Len(w.params) :
                      ( /\ AddsDefaulted(o, w, j)
                        /\ DictKeys(oldApi.functions) = {k}
                        /\ DictKeys(newApi.functions) = {k}
                        /\ oldApi.classes = newApi.classes )
                      => /\ Len(changes) = 1
                         /\ changes[1].kind = "param_added"
                         /\ changes[1].symbol = ParamSym(k, w.params[j].name)
                         /\ changes[1].level = "minor"
                         /\ pc = "done" => level = "minor"

\* Scenario B: fetch(url: str) -> str becomes fetch(url: str, timeout: int = 30) -> str.
C7_Witness ==
    /\ pc = "done"
    /\ level = "minor"
    /\ Len(changes) = 1
    /\ \E k \in SharedFunctions :
          LET o == Get(oldApi.functions, k)
              w == Get(newApi.functions, k)
          IN  /\ Len(o.params) = 1 /\ o.params[1].ann = "str" /\ o.params[1].default = ""
              /\ o.ret = "str"
              /\ AddsDefaulted(o, w, 2)
              /\ w.params[2].ann = "int"

\* C8: for a function present in both surfaces, a parameter present in both
\* signatures yields a type_changed Change exactly when both annotations are
\* non-empty and differ, and the function yields a return_type_changed Change
\* exactly when both return annotations are non-empty and differ; both are of
\* level major, and never more than one is emitted.
C8_TypeChanged ==
    Diffed =>
        \A k \in SharedFunctions :
            LET o == Get(oldApi.functions, k)
                w == Get(newApi.functions, k)
            IN  /\ \A n \in NamesOf(o) \cup NamesOf(w) :
                      LET both == n \in NamesOf(o) /\ n \in NamesOf(w)
                          differ == /\ both
                                    /\ ParamNamed(o, n).ann # ""
                                    /\ ParamNamed(w, n).ann # ""
                                    /\ ParamNamed(o, n).ann # ParamNamed(w, n).ann
                      IN  /\ Count("type_changed", ParamSym(k, n)) = (IF differ THEN 1 ELSE 0)
                          /\ AllAtLevel("type_changed", ParamSym(k, n), "major")
                /\ Count("return_type_changed", k)
                      = (IF o.ret # "" /\ w.ret # "" /\ o.ret # w.ret THEN 1 ELSE 0)
                /\ AllAtLevel("return_type_changed", k, "major")

C8_Witness ==
    /\ pc = "diffed"
    /\ \E k \in SharedFunctions :
          LET o == Get(oldApi.functions, k)
              w == Get(newApi.functions, k)
          IN  /\ NamesOf(o) = {"x", "y"} /\ NamesOf(w) = {"x", "y"}
              /\ ParamNamed(o, "x").ann = "int" /\ ParamNamed(w, "x").ann = "str"
              /\ ParamNamed(o, "y").ann = "" /\ ParamNamed(w, "y").ann = "int"
              /\ o.ret = "int" /\ w.ret = ""
              /\ Count("type_changed", ParamSym(k, "x")) = 1
              /\ Count("type_changed", ParamSym(k, "y")) = 0
              /\ Count("return_type_changed", k) = 0

\* C9: for a function present in both surfaces and a parameter present in
\* both signatures, exactly one default_removed Change of level major is
\* emitted when the old default is non-empty and the new one empty, exactly one
\* default_changed Change of level patch when both are non-empty and differ,
\* and no default Change in every other case.
C9_DefaultChanges ==
    Diffed =>
        \A k \in SharedFunctions :
            LET o == Get(oldApi.functions, k)
                w == Get(newApi.functions, k)
            IN  \A n \in NamesOf(o) \cup NamesOf(w) :
                    LET both == n \in NamesOf(o) /\ n \in NamesOf(w)
                        removed == /\ both
                                   /\ ParamNamed(o, n).default # ""
                                   /\ ParamNamed(w, n).default = ""
                        changed == /\ both
                                   /\ ParamNamed(o, n).default # ""
                                   /\ ParamNamed(w, n).default # ""
                                   /\ ParamNamed(o, n).default # ParamNamed(w, n).default
                    IN  /\ Count("default_removed", ParamSym(k, n)) = (IF removed THEN 1 ELSE 0)
                        /\ AllAtLevel("default_removed", ParamSym(k, n), "major")
                        /\ Count("default_changed", ParamSym(k, n)) = (IF changed THEN 1 ELSE 0)
                        /\ AllAtLevel("default_changed", ParamSym(k, n), "patch")

C9_Witness ==
    /\ pc = "diffed"
    /\ Len(changes) = 2
    /\ \E k \in SharedFunctions :
          /\ Count("default_removed", ParamSym(k, "x")) = 1
          /\ Count("default_changed", ParamSym(k, "y")) = 1

\* The elements of a list.
Elems(s) == {s[i] : i \in 1..Len(s)}

\* The classes present in both surfaces.
SharedClasses == DictKeys(oldApi.classes) \cap DictKeys(newApi.classes)

\* C10: for a class present in both surfaces, every annotated attribute of
\* the old class absent from the new yields attr_removed Changes on
\* <class>.<attr>, all of level major (one per occurrence in the old list);
\* every old method absent from the new exactly one method_removed (major);
\* every new method absent from the old exactly one method_added (minor); an
\* attribute of the new class absent from the old yields no Change at all, and
\* neither does an attribute present in both.
C10_ClassMembers ==
    Diffed =>
        \A k \in SharedClasses :
            LET o == Get(oldApi.classes, k)
                w == Get(newApi.classes, k)
            IN  /\ \A a \in Elems(o.attrs) \cup Elems(w.attrs) :
                      /\ (a \in Elems(o.attrs) /\ a \notin Elems(w.attrs))
                            => /\ Count("attr_removed", MemberSym(k, a))
                                    = Cardinality({i \in 1..Len(o.attrs) : o.attrs[i] = a})
                               /\ AllAtLevel("attr_removed", MemberSym(k, a), "major")
                      /\ a \in Elems(w.attrs)
                            => \A i \in 1..Len(changes) : changes[i].symbol # MemberSym(k, a)
                /\ \A m \in DictKeys(o.methods) \cup DictKeys(w.methods) :
                      /\ ExistenceReported("method_removed", MemberSym(k, m),
                            Has(o.methods, m) /\ ~Has(w.methods, m), "major")
                      /\ ExistenceReported("method_added", MemberSym(k, m),
                            Has(w.methods, m) /\ ~Has(o.methods, m), "minor")

\* Scenario D with more: one attribute removed, another added, one method
\* removed, another added.
C10_Witness ==
    /\ pc = "diffed"
    /\ \E k \in SharedClasses :
          LET o == Get(oldApi.classes, k)
              w == Get(newApi.classes, k)
          IN  /\ o.attrs = << <<"a">> >>
              /\ w.attrs = << <<"b">> >>
              /\ DictKeys(o.methods) = {<<"m">>}
              /\ DictKeys(w.methods) = {<<"n">>}
              /\ Len(changes) = 3
              /\ Count("attr_removed", MemberSym(k, <<"a">>)) = 1

(***************************************************************************)
(* Properties of the extraction.                                           *)
(***************************************************************************)
\* The top-level declarations of a name in a tree.
Decls(tree, name) ==
    {n \in UNION {Elems(tree[i].body) : i \in 1..Len(tree)} : n.name = name}

\* Every declaration of the name in the tree carries the ignore directive.
Ignored(tree, name) == \A n \in Decls(tree, name) : n.directive = "ignore"

\* No Change is about the top-level name or one of its members or parameters.
Unreported(name) ==
    \A i \in 1..Len(changes) : ~(changes[i].symbol.mod = Mod /\ changes[i].symbol.name = name)

\* C2 as stated: a function or class whose declaring line carries the ignore
\* directive in each version that declares it appears in no Change.
C2_IgnoredNeverReported ==
    Diffed =>
        \A name \in TopNames :
            ( /\ Decls(oldTree, name) \cup Decls(newTree, name) # {}
              /\ Ignored(oldTree, name)
              /\ Ignored(newTree, name) )
            => Unreported(name)

\* Every module of the tree defines an export list that leaves the name out,
\* and no declaration of the name carries the public directive.
Unexported(tree, name) ==
    /\ \A i \in 1..Len(tree) : tree[i].exports.defined /\ name \notin tree[i].exports.names
    /\ \A n \in Decls(tree, name) : n.directive # "public"

\* C3 as stated: with an export list defined in both versions, a function or
\* class that is not in the list and carries no public directive appears in no
\* Change.
C3_UnexportedNeverReported ==
    Diffed =>
        \A name \in TopNames :
            ( /\ Decls(oldTree, name) \cup Decls(newTree, name) # {}
              /\ Unexported(oldTree, name)
              /\ Unexported(newTree, name) )
            => Unreported(name)

(***************************************************************************)
(* Properties of the method diff.                                          *)
(***************************************************************************)
\* The function-diff rules of the table of Changes, as the set of
\* (kind, symbol, level) they give for two signatures o and w under sym.
RuleChanges(sym, o, w) ==
    LET both == NamesOf(o) \cap NamesOf(w)
        triple(kind, s, lvl) == [kind |-> kind, symbol |-> s, level |-> lvl]
    IN  {triple("param_removed", ParamSym(sym, n), "major") : n \in NamesOf(o) \ NamesOf(w)}
        \cup {triple("param_added", ParamSym(sym, n),
                     IF ParamNamed(w, n).default = "" THEN "major" ELSE "minor") :
                 n \in NamesOf(w) \ NamesOf(o)}
        \cup {triple("type_changed", ParamSym(sym, n), "major") :
                 n \in {x \in both : /\ ParamNamed(o, x).ann # ""
                                     /\ ParamNamed(w, x).ann # ""
                                     /\ ParamNamed(o, x).ann # ParamNamed(w, x).ann}}
        \cup {triple("default_removed", ParamSym(sym, n), "major") :
                 n \in {x \in both : /\ ParamNamed(o, x).default # ""
                                     /\ ParamNamed(w, x).default = ""}}
        \cup {triple("default_changed", ParamSym(sym, n), "patch") :
                 n \in {x \in both : /\ ParamNamed(o, x).default # ""
                                     /\ ParamNamed(w, x).default # ""
                                     /\ ParamNamed(o, x).default # ParamNamed(w, x).default}}
        \cup (IF o.ret # "" /\ w.ret # "" /\ o.ret # w.ret
              THEN {triple("return_type_changed", sym, "major")}
              ELSE {})

\* The places in changes of the Changes about member m of class k.
AboutMember(k, m) ==
    {i \in 1..Len(changes) :
        /\ changes[i].symbol.mod = k.mod
        /\ changes[i].symbol.name = k.name
        /\ changes[i].symbol.member = m}

\* C11: for a method present in both versions of a class, the Changes about
\* the method are exactly those of the function-diff rules for its two
\* signatures, with their kinds and levels, each once, and with symbols
\* qualified <class>.<method>; no Change of the class is left unqualified.
C11_MethodRules ==
    Diffed =>
        \A k \in SharedClasses :
            LET o == Get(oldApi.classes, k)
                w == Get(newApi.classes, k)
            IN  /\ \A m \in DictKeys(o.methods) \cap DictKeys(w.methods) :
                      LET rules == RuleChanges(MemberSym(k, m),
                                               Get(o.methods, m), Get(w.methods, m))
                          about == AboutMember(k, m)
                      IN  /\ {[kind |-> changes[i].kind, symbol |-> changes[i].symbol,
                               level |-> changes[i].level] : i \in about} = rules
                          /\ Cardinality(about) = Cardinality(rules)
                /\ AboutMember(k, NoName) = {}

C11_Witness ==
    /\ pc = "diffed"
    /\ \E k \in SharedClasses : Cardinality(AboutMember(k, <<"m">>)) = 4
    /\ \E i \in 1..Len(changes) : changes[i].kind = "return_type_changed"
    /\ \E i \in 1..Len(changes) : changes[i].kind = "param_added" /\ changes[i].level = "minor"
    /\ \E i \in 1..Len(changes) : changes[i].kind = "default_changed"

(***************************************************************************)
(* Properties of the command line.                                         *)
(***************************************************************************)
\* C12: gate exits with code 2, before any extraction, when the declared
\* level is not patch, minor or major; otherwise with code 1 exactly when some
\* Change of the diff (hence the aggregated level) ranks strictly above the
\* declared level, and with code 0 in every other case; declared = major never
\* blocks.
C12_GateExitCode ==
    (pc = "exit" /\ cmd.name = "gate") =>
        IF cmd.declared \notin {"patch", "minor", "major"}
        THEN exitCode = 2 /\ level = "none" /\ changes = <<>> /\ oldApi = EmptySurface
        ELSE /\ exitCode = (IF \E i \in 1..Len(changes) :
                                  ~LevelLE(changes[i].level, cmd.declared)
                            THEN 1 ELSE 0)
             /\ exitCode = 1 <=> (level # cmd.declared /\ LevelLE(cmd.declared, level))
             /\ cmd.declared = "major" => exitCode = 0

C12_Witness ==
    /\ pc = "exit"
    /\ cmd = GateCmd("minor")
    /\ exitCode = 1
    /\ level = "major"
    /\ output.text = "RELEASE BLOCKED"
    /\ Len(changes) > 1

(***************************************************************************)
(* Parse failures.                                                         *)
(***************************************************************************)
ParsingModules(tree) == SelectSeq(tree, LAMBDA m : m.parses)

\* C13: a module that fails to parse is left out of the snapshot and
\* extraction continues with the remaining modules: once extract_api has run
\* on both trees it has not aborted, and each surface holds exactly the public
\* symbols of the modules of its tree that parse, however many others fail and
\* wherever they fall in the scan order.
C13_ParseFailureIsolated ==
    pc # "start" =>
        /\ pc # "error"
        /\ oldApi = extract_api(ParsingModules(oldTree)).surface
        /\ newApi = extract_api(ParsingModules(newTree)).surface

(***************************************************************************)
(* The output of compare.                                                  *)
(***************************************************************************)
\* C14: the --format option of compare selects the shape of the output: with
\* "json" a JSON array with one element per Change, each with a "severity"
\* field equal to the Change's level; with "sarif" a JSON object with the keys
\* "version" and "runs" of a SARIF document, carrying one result per Change;
\* with the default format and an empty diff the text "No public API changes
\* detected"; the exit code is 0 in every case.
C14_CompareFormats ==
    (pc = "exit" /\ cmd.name = "compare") =>
        /\ exitCode = 0
        /\ cmd.fmt = "json" =>
              /\ output.kind = "json"
              /\ output.top = "array"
              /\ Len(output.items) = Len(changes)
              /\ \A i \in 1..Len(changes) :
                    /\ "severity" \in DOMAIN output.items[i]
                    /\ output.items[i].severity = changes[i].level
        /\ cmd.fmt = "sarif" =>
              /\ output.kind = "json"
              /\ output.top = "object"
              /\ {"version", "runs"} \subseteq output.keys
              /\ Len(output.items) = Len(changes)
        /\ (cmd.fmt = "table" /\ changes = <<>>) =>
              /\ output.kind = "text"
              /\ output.text = "No public API changes detected."

(***************************************************************************)
(* Parameter extraction.                                                   *)
(***************************************************************************)
\* The default a declaration gives its j-th argument: the trailing k
\* arguments carry the k default expressions, in order.
DeclaredDefault(node, j) ==
    LET n == Len(node.args)
        k == Len(node.defaults)
    IN  IF j > n - k THEN Unparse(node.defaults[j - (n - k)]) ELSE ""

\* The parameters of a declaration as its source shows them, a first argument
\* named self left out.
DeclaredParams(node) ==
    LET n == Len(node.args)
        first == IF n > 0 /\ node.args[1].arg = "self" THEN 2 ELSE 1
    IN  [i \in 1..(n - first + 1) |->
            LET j == i + first - 1
                a == node.args[j]
            IN  [name |-> a.arg,
                 ann |-> IF a.annotation.node # "None" THEN Unparse(a.annotation) ELSE "",
                 default |-> DeclaredDefault(node, j)]]

ParamsAsDeclared(tree, api) ==
    \A m \in Elems(tree) : \A node \in Elems(m.body) :
        node.type = "FunctionDef" =>
            /\ Has(api.functions, Sym(m.mod, node.name))
            /\ Get(api.functions, Sym(m.mod, node.name)).params = DeclaredParams(node)

\* C15: _parse_fn skips only a first parameter named self and records every
\* other parameter in order with its annotation text; each recorded parameter
\* has the default its own declaration carries (the trailing k declared
\* parameters carry the k defaults), and "" when it is declared without one.
C15_ParamsAsDeclared ==
    pc \in {"extracted", "diffed", "done"} =>
        ParamsAsDeclared(oldTree, oldApi) /\ ParamsAsDeclared(newTree, newApi)

(***************************************************************************)
(* Matching of parameters.                                                 *)
(***************************************************************************)
\* The places in changes of the Changes about function k or its parameters.
AboutFunction(k) == {i \in 1..Len(changes) : ParamSym(changes[i].symbol, "") = k}

\* new lists the parameters of old, each with its annotation and default, in
\* any order.
Permuted(old, new) ==
    /\ Len(new.params) = Len(old.params)
    /\ Elems(new.params) = Elems(old.params)

\* new is old with its j-th parameter given a name old does not use, and
\* nothing else differs.
Renames(old, new, j) ==
    /\ j \in 1..Len(old.params)
    /\ Len(new.params) = Len(old.params)
    /\ new.params[j].name \notin NamesOf(old)
    /\ new.params = [old.params EXCEPT ![j].name = new.params[j].name]
    /\ new.ret = old.ret

\* C16: parameters are matched by name, not by position: for a function
\* present in both surfaces, when the new signature is a permutation of the
\* old one's parameters and the return annotation is unchanged, no Change is
\* about the function; when one parameter is renamed and nothing else differs,
\* the Changes about the function are exactly one param_removed for the old
\* name and one param_added for the new name.
C16_MatchByName ==
    Diffed =>
        \A k \in SharedFunctions :
            LET o == Get(oldApi.functions, k)
                w == Get(newApi.functions, k)
            IN  /\ (Permuted(o, w) /\ w.ret = o.ret) => AboutFunction(k) = {}
                /\ \A j \in 1..Len(o.params) :
                      Renames(o, w, j) =>
                          /\ Count("param_removed", ParamSym(k, o.params[j].name)) = 1
                          /\ Count("param_added", ParamSym(k, w.params[j].name)) = 1
                          /\ Cardinality(AboutFunction(k)) = 2

\* f(x: int, y: str) becomes f(y: str, x: int).
C16_Witness ==
    /\ pc = "diffed"
    /\ changes = <<>>
    /\ \E k \in SharedFunctions :
          LET o == Get(oldApi.functions, k)
              w == Get(newApi.functions, k)
          IN  /\ Len(o.params) = 2
              /\ o.params[1].ann = "int" /\ o.params[2].ann = "str"
              /\ w.params = <<o.params[2], o.params[1]>>
              /\ w.ret = o.ret

====
